---- MODULE Spec2Model ----
(***************************************************************************)
(* white-noise-cli: the Bubble Tea model of src/main.go (cursor, selected,  *)
(* err, the shared unbuffered stop channel), its Update handler, and the    *)
(* playTrack / stopTrack / tea.Quit commands, each of which the runtime     *)
(* runs on its own goroutine and whose returned message it feeds back to    *)
(* Update. The app package (src/app/app.go, the cursor-based Model) is the  *)
(* same machine but for its catalog and its errMsg case; pkg tells the two  *)
(* apart. The spinner of the app package only redraws and is left out.      *)
(***************************************************************************)
EXTENDS Integers, Sequences, FiniteSets

\* The catalogs a run may be built with: the one initialModel builds, the
\* two-track catalog of the specification's toggle scenario and the empty
\* catalog.
Catalogs ==
    { <<"Forest", "Train car", "Horse carriage">>,
      <<"Rain", "Forest">>,
      <<>> }

\* The catalog app.InitialModel builds.
AppCatalog ==
    <<"Rain", "Forest", "Train car", "Horse carriage", "Lizards",
      "A sad woman making spaghetti", "Loud sweatsuit pants", "Peeing",
      "An active snake pit", "Coffee shop chatter", "Kombucha brewing room",
      "Warehouse", "Cloud formations">>

\* Bound on the number of key presses handled by Update in one run. Every
\* goroutine is spawned by a key press, so this bounds the goroutines too.
MaxKeys == 3

VARIABLES
    pkg,        \* "main" for src/main.go, "app" for src/app/app.go
    choices,    \* m.choices, fixed at construction
    cursor,     \* m.cursor
    selected,   \* m.selected, -1 when no choice is selected
    err,        \* m.err: "nil" or the kind of the last error recorded
    keys,       \* the key presses Update has handled, in order, each with
                \* the model and the command Update returned for it
    procs,      \* the command goroutines, in the order Update issued them
    exited,     \* p.Run() has returned and main with it
    exitCode,   \* the exit code of the process, -1 while it runs
    speaker     \* the one device of the speaker package: the session whose
                \* speaker.Init set it up last, 0 while it is closed

vars == <<pkg, choices, cursor, selected, err, keys, procs, exited, exitCode,
          speaker>>

NoSelection == 0 - 1

\* One entry of keys: the key, the model Update returned and its command.
Pressed(k, c, s, cmd) ==
    [key |-> k, cursor |-> c, selected |-> s, cmd |-> cmd, err |-> err]

\* The messages a command returns to the runtime.
NoMsg       == [type |-> "none",      status |-> 0, error |-> "nil"]
StatusMsg(n) == [type |-> "statusMsg", status |-> n, error |-> "nil"]
ErrMsg(e)   == [type |-> "errMsg",    status |-> 0, error |-> e]
QuitMsg     == [type |-> "QuitMsg",   status |-> 0, error |-> "nil"]

Procs == 1..Len(procs)

\* A goroutine running playTrack on a copy of the model whose selected is
\* sel: track is m.choices[m.selected] of that copy, "" when the index is
\* out of range (playTrack then panics before it uses it).
NewPlay(sel) ==
    [kind |-> "play", pc |-> "open", sel |-> sel, opened |-> "",
     track |-> IF sel + 1 \in DOMAIN choices THEN choices[sel + 1] ELSE "",
     target |-> 0,
     late |-> FALSE, openErr |-> FALSE, msg |-> NoMsg,
     file |-> FALSE, streamer |-> FALSE, device |-> FALSE,
     devOps |-> <<>>, stoppedFor |-> 0]

\* A goroutine running stopTrack; target is the session (index into procs)
\* that was current when Update issued it, late whether playTrack had
\* already returned in that session by then.
NewStop(s) ==
    [kind |-> "stop", pc |-> "send", sel |-> NoSelection, opened |-> "",
     track |-> "", target |-> s,
     late |-> s \in Procs /\ procs[s].pc \in {"returned", "done"},
     openErr |-> FALSE, msg |-> NoMsg,
     file |-> FALSE, streamer |-> FALSE, device |-> FALSE,
     devOps |-> <<>>, stoppedFor |-> 0]

\* tea.Quit: a command that returns the runtime's quit message.
NewQuit ==
    [kind |-> "quit", pc |-> "returned", sel |-> NoSelection, opened |-> "",
     track |-> "", target |-> 0,
     late |-> FALSE, openErr |-> FALSE, msg |-> QuitMsg,
     file |-> FALSE, streamer |-> FALSE, device |-> FALSE,
     devOps |-> <<>>, stoppedFor |-> 0]

Sessions == {p \in Procs : procs[p].kind = "play"}
Stops    == {p \in Procs : procs[p].kind = "stop"}

\* The session most recently started: the one m.selected refers to while it
\* is not -1.
CurrentSession ==
    IF Sessions = {} THEN 0
    ELSE CHOOSE s \in Sessions : \A t \in Sessions : t <= s

\* The state initialModel and app.InitialModel have in common.
InitModel ==
    /\ cursor = 0
    /\ selected = NoSelection
    /\ err = "nil"
    /\ keys = <<>>
    /\ procs = <<>>
    /\ exited = FALSE
    /\ exitCode = 0 - 1
    /\ speaker = 0

Init ==
    /\ pkg = "main"
    /\ choices \in Catalogs
    /\ InitModel

InitApp ==
    /\ pkg = "app"
    /\ choices = AppCatalog
    /\ InitModel

(***************************************************************************)
(* Update, key messages.                                                    *)
(***************************************************************************)
CanPress == ~exited /\ Len(keys) < MaxKeys

KeyQuit ==
    /\ CanPress
    /\ keys' = Append(keys, Pressed("q", cursor, selected, "Quit"))
    /\ procs' = Append(procs, NewQuit)
    /\ UNCHANGED <<pkg, choices, cursor, selected, err, exited, exitCode,
                   speaker>>

KeyUp ==
    /\ CanPress
    /\ cursor' = IF cursor > 0 THEN cursor - 1 ELSE cursor
    /\ keys' = Append(keys, Pressed("up", cursor', selected, "nil"))
    /\ UNCHANGED <<pkg, choices, selected, err, procs, exited, exitCode,
                   speaker>>

\* KeyDown without its bound check: the cursor moves down unconditionally.
KeyDownUnchecked ==
    /\ CanPress
    /\ cursor' = cursor + 1
    /\ keys' = Append(keys, Pressed("down", cursor', selected, "nil"))
    /\ UNCHANGED <<pkg, choices, selected, err, procs, exited, exitCode,
                   speaker>>

KeyDown ==
    /\ CanPress
    /\ cursor' = IF cursor < Len(choices) - 1 THEN cursor + 1 ELSE cursor
    /\ keys' = Append(keys, Pressed("down", cursor', selected, "nil"))
    /\ UNCHANGED <<pkg, choices, selected, err, procs, exited, exitCode,
                   speaker>>

\* KeyEnter without the toggle: the else branch of the comparison is lost
\* and every enter selects the cursor's track and plays it.
KeyEnterNoToggle ==
    /\ CanPress
    /\ selected' = cursor
    /\ procs' = Append(procs, NewPlay(cursor))
    /\ keys' = Append(keys, Pressed("enter", cursor, cursor, "playTrack"))
    /\ UNCHANGED <<pkg, choices, cursor, err, exited, exitCode, speaker>>

\* KeyEnter with the comparison inverted: the cursor's track is stopped
\* unless it is the selected one, and then played.
KeyEnterInverted ==
    /\ CanPress
    /\ IF selected = cursor
         THEN /\ selected' = cursor
              /\ procs' = Append(procs, NewPlay(cursor))
              /\ keys' = Append(keys,
                                Pressed("enter", cursor, cursor, "playTrack"))
         ELSE /\ selected' = NoSelection
              /\ procs' = Append(procs, NewStop(CurrentSession))
              /\ keys' = Append(keys,
                           Pressed("enter", cursor, NoSelection, "stopTrack"))
    /\ UNCHANGED <<pkg, choices, cursor, err, exited, exitCode, speaker>>

KeyEnter ==
    /\ CanPress
    /\ IF selected # cursor
         THEN /\ selected' = cursor
              /\ procs' = Append(procs, NewPlay(cursor))
              /\ keys' = Append(keys,
                                Pressed("enter", cursor, cursor, "playTrack"))
         ELSE /\ selected' = NoSelection
              /\ procs' = Append(procs, NewStop(CurrentSession))
              /\ keys' = Append(keys,
                           Pressed("enter", cursor, NoSelection, "stopTrack"))
    /\ UNCHANGED <<pkg, choices, cursor, err, exited, exitCode, speaker>>

(***************************************************************************)
(* playTrack, one step per call the goroutine makes.                        *)
(***************************************************************************)
Running(p) == ~exited /\ p \in Procs

Set(p, r) == procs' = [procs EXCEPT ![p] = r]

\* PlayOpen with the error of os.Open dropped: playTrack goes on to decode.
PlayOpenErrIgnored(s) ==
    /\ Running(s)
    /\ procs[s].kind = "play" /\ procs[s].pc = "open"
    /\ procs[s].sel + 1 \in DOMAIN choices
    /\ \/ Set(s, [procs[s] EXCEPT !.pc = "decode", !.file = TRUE,
                                  !.opened = procs[s].track])
       \/ Set(s, [procs[s] EXCEPT !.pc = "decode", !.openErr = TRUE,
                                  !.opened = procs[s].track])
    /\ UNCHANGED <<pkg, choices, cursor, selected, err, keys, exited,
                   exitCode, speaker>>

\* PlayOpen on the model itself instead of the copy the command was made
\* from: the track is looked up with the selection of the moment.
PlayOpenSharedModel(s) ==
    /\ Running(s)
    /\ procs[s].kind = "play" /\ procs[s].pc = "open"
    /\ selected + 1 \in DOMAIN choices
    /\ \/ Set(s, [procs[s] EXCEPT !.pc = "decode", !.file = TRUE,
                                  !.opened = choices[selected + 1]])
       \/ Set(s, [procs[s] EXCEPT !.pc = "returned", !.openErr = TRUE,
                                  !.opened = choices[selected + 1],
                                  !.msg = ErrMsg("open")])
    /\ UNCHANGED <<pkg, choices, cursor, selected, err, keys, exited,
                   exitCode, speaker>>

\* track := m.choices[m.selected], which panics when the index is out of
\* range: the process dies, with exit code 2 from the Go runtime or 1 when
\* the Bubble Tea runtime recovers the panic and p.Run() returns an error.
\* Then os.Open(fileName) with the file name made from the track: on an
\* error playTrack returns errMsg at once.
PlayOpen(s) ==
    /\ Running(s)
    /\ procs[s].kind = "play" /\ procs[s].pc = "open"
    /\ IF procs[s].sel + 1 \in DOMAIN choices
         THEN /\ \/ Set(s, [procs[s] EXCEPT !.pc = "decode", !.file = TRUE,
                                            !.opened = procs[s].track])
                 \/ Set(s, [procs[s] EXCEPT !.pc = "returned",
                                            !.openErr = TRUE,
                                            !.opened = procs[s].track,
                                            !.msg = ErrMsg("open")])
              /\ UNCHANGED <<exited, exitCode>>
         ELSE /\ Set(s, [procs[s] EXCEPT !.pc = "panic"])
              /\ exited' = TRUE
              /\ exitCode' \in {1, 2}
    /\ UNCHANGED <<pkg, choices, cursor, selected, err, keys, speaker>>

\* wav.Decode(f): on an error playTrack returns errMsg; streamer.Close is
\* deferred only after a successful decode.
PlayDecode(s) ==
    /\ Running(s)
    /\ procs[s].kind = "play" /\ procs[s].pc = "decode"
    /\ \/ Set(s, [procs[s] EXCEPT !.pc = "init", !.streamer = TRUE])
       \/ Set(s, [procs[s] EXCEPT !.pc = "returned", !.msg = ErrMsg("decode")])
    /\ UNCHANGED <<pkg, choices, cursor, selected, err, keys, exited,
                   exitCode, speaker>>

\* speaker.Init: on an error playTrack returns errMsg through the deferred
\* streamer.Close; speaker.Close is not deferred yet.
PlayInit(s) ==
    /\ Running(s)
    /\ procs[s].kind = "play" /\ procs[s].pc = "init"
    /\ \/ /\ Set(s, [procs[s] EXCEPT !.pc = "play", !.device = TRUE,
                                     !.devOps = Append(@, "Init")])
          /\ speaker' = s
       \/ /\ Set(s, [procs[s] EXCEPT !.pc = "deferStreamer",
                                     !.msg = ErrMsg("speaker"),
                                     !.devOps = Append(@, "Init")])
          /\ speaker' \in {speaker, 0}
    /\ UNCHANGED <<pkg, choices, cursor, selected, err, keys, exited,
                   exitCode>>

\* speaker.Play of the endless loop followed by the done callback; then
\* speaker.Close is deferred and the goroutine waits in the select.
PlayPlay(s) ==
    /\ Running(s)
    /\ procs[s].kind = "play" /\ procs[s].pc = "play"
    /\ Set(s, [procs[s] EXCEPT !.pc = "select", !.devOps = Append(@, "Play")])
    /\ UNCHANGED <<pkg, choices, cursor, selected, err, keys, exited,
                   exitCode, speaker>>

\* case <-done: the audio ended and the callback fired.
SelectDone(s) ==
    /\ Running(s)
    /\ procs[s].kind = "play" /\ procs[s].pc = "select"
    /\ Set(s, [procs[s] EXCEPT !.pc = "deferSpeaker", !.msg = StatusMsg(0)])
    /\ UNCHANGED <<pkg, choices, cursor, selected, err, keys, exited,
                   exitCode, speaker>>

\* m.stop <- true in stopTrack g meets case <-m.stop in playTrack s. The
\* channel is unbuffered and is the one made by initialModel: every copy of
\* the model holds the same channel, so any waiting session may receive.
StopRendezvous(g, s) ==
    /\ Running(g) /\ Running(s)
    /\ procs[g].kind = "stop" /\ procs[g].pc = "send"
    /\ procs[s].kind = "play" /\ procs[s].pc = "select"
    /\ procs' = [procs EXCEPT
                   ![g] = [@ EXCEPT !.pc = "returned", !.msg = StatusMsg(0)],
                   ![s] = [@ EXCEPT !.pc = "deferSpeaker",
                                    !.msg = StatusMsg(0),
                                    !.stoppedFor = procs[g].target]]
    /\ UNCHANGED <<pkg, choices, cursor, selected, err, keys, exited,
                   exitCode, speaker>>

\* DeferSpeakerClose with the defer of speaker.Close left out: playTrack
\* returns from the select with the device still open.
DeferSpeakerCloseMissing(s) ==
    /\ Running(s)
    /\ procs[s].kind = "play" /\ procs[s].pc = "deferSpeaker"
    /\ Set(s, [procs[s] EXCEPT !.pc = "deferStreamer"])
    /\ UNCHANGED <<pkg, choices, cursor, selected, err, keys, exited,
                   exitCode, speaker>>

\* defer speaker.Close(), run when playTrack returns from the select: it
\* closes the device of the package, whichever session set it up.
DeferSpeakerClose(s) ==
    /\ Running(s)
    /\ procs[s].kind = "play" /\ procs[s].pc = "deferSpeaker"
    /\ Set(s, [procs[s] EXCEPT !.pc = "deferStreamer", !.device = FALSE,
                               !.devOps = Append(@, "Close")])
    /\ speaker' = 0
    /\ UNCHANGED <<pkg, choices, cursor, selected, err, keys, exited,
                   exitCode>>

\* defer streamer.Close(), which closes the decoder and the file under it;
\* after it the goroutine holds the value playTrack returned.
DeferStreamerClose(s) ==
    /\ Running(s)
    /\ procs[s].kind = "play" /\ procs[s].pc = "deferStreamer"
    /\ Set(s, [procs[s] EXCEPT !.pc = "returned", !.streamer = FALSE,
                               !.file = FALSE])
    /\ UNCHANGED <<pkg, choices, cursor, selected, err, keys, exited,
                   exitCode, speaker>>

(***************************************************************************)
(* Update, the messages the commands return. The runtime hands each         *)
(* returned message to Update, one at a time, in any order.                 *)
(***************************************************************************)
Returned(p, type) ==
    /\ Running(p)
    /\ procs[p].pc = "returned"
    /\ procs[p].msg.type = type

Handled(p) == [procs EXCEPT ![p].pc = "done"]

UpdateStatusMsg(p) ==
    /\ Returned(p, "statusMsg")
    /\ IF procs[p].msg.status # 0
         THEN /\ err' = "status"
              /\ procs' = Append(Handled(p), NewQuit)
         ELSE /\ err' = err
              /\ procs' = Handled(p)
    /\ UNCHANGED <<pkg, choices, cursor, selected, keys, exited, exitCode,
                   speaker>>

\* UpdateErrMsg as src/main.go has it, in both packages: the error is
\* recorded and tea.Quit returned.
UpdateErrMsgQuits(p) ==
    /\ Returned(p, "errMsg")
    /\ err' = procs[p].msg.error
    /\ procs' = Append(Handled(p), NewQuit)
    /\ UNCHANGED <<pkg, choices, cursor, selected, keys, exited, exitCode,
                   speaker>>

\* case errMsg: src/main.go records the error and returns tea.Quit; the app
\* package records it and returns no command.
UpdateErrMsg(p) ==
    /\ Returned(p, "errMsg")
    /\ err' = procs[p].msg.error
    /\ procs' = IF pkg = "main" THEN Append(Handled(p), NewQuit)
                                ELSE Handled(p)
    /\ UNCHANGED <<pkg, choices, cursor, selected, keys, exited, exitCode,
                   speaker>>

\* The runtime's own handling of the message tea.Quit returns: p.Run()
\* returns, main returns and the process ends with its goroutines.
RunQuit(p) ==
    /\ Returned(p, "QuitMsg")
    /\ exited' = TRUE
    /\ exitCode' = 0
    /\ procs' = Handled(p)
    /\ UNCHANGED <<pkg, choices, cursor, selected, err, keys, speaker>>

MaxProcs == 2 * MaxKeys

Next ==
    \/ KeyQuit
    \/ KeyUp
    \/ KeyDown
    \/ KeyEnter
    \/ \E p \in 1..MaxProcs :
         \/ PlayOpen(p)
         \/ PlayDecode(p)
         \/ PlayInit(p)
         \/ PlayPlay(p)
         \/ SelectDone(p)
         \/ DeferSpeakerClose(p)
         \/ DeferStreamerClose(p)
         \/ UpdateStatusMsg(p)
         \/ UpdateErrMsg(p)
         \/ RunQuit(p)
         \/ \E s \in 1..MaxProcs : StopRendezvous(p, s)

Spec == Init /\ [][Next]_vars

\* The app package.
SpecApp == InitApp /\ [][Next]_vars

\* The steps the scheduler and the runtime take on their own: every
\* goroutine that can run does run, and every returned message is handed to
\* Update. Key presses are the user's and carry no fairness.
Internal ==
    \E p \in 1..MaxProcs :
        \/ PlayOpen(p)
        \/ PlayDecode(p)
        \/ PlayInit(p)
        \/ PlayPlay(p)
        \/ DeferSpeakerClose(p)
        \/ DeferStreamerClose(p)
        \/ UpdateStatusMsg(p)
        \/ UpdateErrMsg(p)
        \/ RunQuit(p)
        \/ \E s \in 1..MaxProcs : StopRendezvous(p, s)

FairSpec == Spec /\ WF_vars(Internal)

(***************************************************************************)
(* Vocabulary of the properties.                                            *)
(***************************************************************************)
\* playTrack has returned: its goroutine holds, or has delivered, its message.
Ended(s) == procs[s].pc \in {"returned", "done"}

\* A playTrack invocation that has started and has not yet returned.
LiveSessions == {s \in Sessions : ~Ended(s)}

\* The sessions between their speaker.Init and their speaker.Close.
DeviceHolders == {s \in Sessions : procs[s].device}

Did(s, op) == \E i \in 1..Len(procs[s].devOps) : procs[s].devOps[i] = op

\* The commands Update has returned for key presses, in order.
Commands == [i \in 1..Len(keys) |-> keys[i].cmd]

\* The selection after each key press, in order.
Selections == [i \in 1..Len(keys) |-> keys[i].selected]

KeyNames == [i \in 1..Len(keys) |-> keys[i].key]

\* C1: in every reachable state at most one playback session is live.
C1_AtMostOneLiveSession == Cardinality(LiveSessions) <= 1

\* C2: when the user switches from track A to track B, A's session has
\* released the output device (speaker.Close) before B's session opens it
\* (speaker.Init): no two sessions hold the output device in any state, and
\* a later session that has opened the device finds every earlier one ended.
C2_ReleasedBeforeNextOpened ==
    /\ Cardinality(DeviceHolders) <= 1
    /\ \A a, b \in Sessions :
         (a < b /\ Did(b, "Init") /\ Did(a, "Init")) => Did(a, "Close")

\* C3: no second Start is issued for a new track before the Stop for the
\* previous track's session has been issued: between any two playTrack
\* commands Update has returned a stopTrack command.
C3_StopIssuedBeforeNextStart ==
    \A a, b \in Sessions :
        a < b => \E g \in Stops : a < g /\ g < b /\ procs[g].target = a

\* C4: a stopTrack issued after its session has already ended does not
\* block: whenever such a command is still at its send on m.stop, some
\* playTrack is waiting in its select to receive it.
C4_StopAfterEndDoesNotBlock ==
    \A g \in Stops :
        (procs[g].pc = "send" /\ procs[g].late)
            => \E s \in Sessions : procs[s].pc = "select"

\* C5: a Stop cancels exactly the session it was issued for: every session
\* that left its select on m.stop received the signal of a stopTrack issued
\* for that very session.
C5_StopReachesOnlyItsSession ==
    \A s \in Sessions : procs[s].stoppedFor \in {0, s}

\* C6: when the program has exited on a Quit key (no error was recorded),
\* every session started before that key was pressed has released the output
\* device: it was cancelled before the exit.
C6_QuitCancelsLiveSession ==
    (exited /\ err = "nil")
        => \A s \in Sessions : \A q \in Procs :
             (procs[q].kind = "quit" /\ s < q) => ~procs[s].device

\* C7: whatever ended a session (cancellation, end of stream, or a failure
\* once the decoder was open), its output device is released and its decoder
\* closed before its statusMsg or errMsg is handed to Update.
C7_ReleaseBeforeOutcome ==
    \A s \in Sessions :
        Ended(s) => (~procs[s].device /\ ~procs[s].streamer)

\* A session that held the device, was cancelled, and whose outcome Update
\* has handled; and one that ended on the stream's own end.
C7_Witness ==
    /\ \E s \in Sessions :
         /\ procs[s].pc = "done" /\ procs[s].stoppedFor = s
         /\ Did(s, "Init") /\ Did(s, "Close")
    /\ \E s \in Sessions :
         /\ procs[s].pc = "done" /\ procs[s].stoppedFor = 0
         /\ procs[s].msg = StatusMsg(0)

\* C8: with the catalog <<"Rain", "Forest">> the keys down, enter, enter
\* take the selection Idle -> Playing(1) -> Idle and issue exactly one Start
\* and then one Stop; in general two consecutive enter keys pressed from Idle
\* issue a Start for the cursor's track and then a Stop, and end in Idle.
C8_ToggleTwice ==
    /\ (choices = <<"Rain", "Forest">>
          /\ KeyNames = <<"down", "enter", "enter">>)
         => /\ Selections = <<NoSelection, 1, NoSelection>>
            /\ Commands = <<"nil", "playTrack", "stopTrack">>
            /\ Cardinality(Sessions) = 1 /\ Cardinality(Stops) = 1
            /\ \A s \in Sessions : \A g \in Stops :
                 s < g /\ procs[g].target = s /\ procs[s].track = "Forest"
    /\ \A n \in 1..(Len(keys) - 1) :
         (/\ keys[n].key = "enter" /\ keys[n + 1].key = "enter"
          /\ (n = 1 \/ keys[n - 1].selected = NoSelection))
         => /\ keys[n].selected = keys[n].cursor
            /\ keys[n].cmd = "playTrack"
            /\ keys[n + 1].selected = NoSelection
            /\ keys[n + 1].cmd = "stopTrack"

\* The scenario has run to its end, and the session it started was stopped.
C8_Witness ==
    /\ choices = <<"Rain", "Forest">>
    /\ KeyNames = <<"down", "enter", "enter">>
    /\ selected = NoSelection
    /\ \E s \in Sessions : procs[s].stoppedFor = s /\ procs[s].pc = "done"

\* C9: when Update handles the success statusMsg of the currently active
\* session, the selection becomes none.
C9_SuccessOutcomeClearsSelection ==
    [][\A s \in 1..MaxProcs :
          (/\ UpdateStatusMsg(s)
           /\ procs[s].kind = "play"
           /\ s = CurrentSession
           /\ selected # NoSelection)
          => selected' = NoSelection]_vars

\* C10: a session whose file cannot be opened returns the errMsg of the open
\* failure and performs no speaker.Init, speaker.Play or speaker.Close; once
\* Update has handled that message the model holds an error and a Quit
\* command has been returned.
C10_OpenFailure ==
    \A s \in Sessions :
        procs[s].openErr =>
            /\ Ended(s)
            /\ procs[s].msg = ErrMsg("open")
            /\ procs[s].devOps = <<>>
            /\ ~procs[s].device
            /\ procs[s].pc = "done" =>
                 /\ err # "nil"
                 /\ \E q \in Procs : q > s /\ procs[q].kind = "quit"

\* An open failure whose errMsg Update has handled.
C10_Witness ==
    \E s \in Sessions :
        /\ procs[s].openErr /\ procs[s].pc = "done"
        /\ err = "open"

\* The key presses for which Update returned the command cmd.
KeysWith(cmd) == {n \in 1..Len(keys) : keys[n].cmd = cmd}

\* The selection the model held before the n-th key press.
SelectedBefore(n) == IF n = 1 THEN NoSelection ELSE keys[n - 1].selected

\* The key press whose playTrack command runs in session s: commands run in
\* the order Update returned them.
KeyOf(s) ==
    CHOOSE n \in KeysWith("playTrack") :
        Cardinality({m \in KeysWith("playTrack") : m <= n})
            = Cardinality({r \in Sessions : r <= s})

\* C11: whatever up and down keys are pressed, the cursor stays within
\* [0, len(choices) - 1]; with the empty catalog it stays at 0.
C11_CursorInBounds ==
    \/ cursor \in 0..(Len(choices) - 1)
    \/ choices = <<>> /\ cursor = 0

\* Down and up have both been pressed on the empty catalog.
C11_Witness ==
    /\ choices = <<>>
    /\ \E n, m \in 1..Len(keys) : keys[n].key = "down" /\ keys[m].key = "up"

C13_DeviceExclusive ==
    \A s \in Sessions : procs[s].device => speaker = s

\* C14: under fair scheduling a Stop issued for a live session is eventually
\* observed: stopTrack returns and the session it was issued for ends with
\* the output device released, unless the process exits first or a stream
\* has come to its own end first.
C14_StopEventuallyObserved ==
    \A g \in 1..MaxProcs :
        (g \in Stops /\ ~procs[g].late)
            ~> \/ exited
               \/ \E s \in Sessions : /\ procs[s].msg = StatusMsg(0)
                                       /\ procs[s].stoppedFor = 0
               \/ /\ g \in Stops
                  /\ procs[g].pc # "send"
                  /\ Ended(procs[g].target)
                  /\ ~procs[procs[g].target].device

\* C15: every statusMsg or errMsg Update has received is the outcome of a
\* session that has ended: Update has received no more of them than
\* sessions have ended.
C15_OutcomesFromSessions ==
    Cardinality({p \in Procs :
                   /\ procs[p].pc = "done"
                   /\ procs[p].msg.type \in {"statusMsg", "errMsg"}})
        <= Cardinality({s \in Sessions : Ended(s)})

\* C16: the process exits with code 0 when the user quits and no error was
\* recorded, and with a non-zero code when it ends on a recorded playback
\* error without the user having quit.
C16_ExitCode ==
    /\ (exited /\ err = "nil" /\ KeysWith("Quit") # {}
          /\ \A p \in Procs : procs[p].pc # "panic")
         => exitCode = 0
    /\ (exited /\ err # "nil" /\ KeysWith("Quit") = {})
         => exitCode \notin {0 - 1, 0}

\* C17: in the app package an errMsg is recorded and nothing else: Update
\* returns no command for it (every Quit comes from a q key, and the program
\* exits only on one) and the cursor and the selection stay as the last key
\* press left them, so keys go on being handled in the errored state.
C17_AppErrMsgDoesNotQuit ==
    /\ \A p \in Procs :
         (procs[p].pc = "done" /\ procs[p].msg.type = "errMsg") => err # "nil"
    /\ Cardinality({p \in Procs : procs[p].kind = "quit"})
         = Cardinality(KeysWith("Quit"))
    /\ exited => KeysWith("Quit") # {}
    /\ keys # <<>> => /\ cursor = keys[Len(keys)].cursor
                      /\ selected = keys[Len(keys)].selected
    /\ keys = <<>> => (cursor = 0 /\ selected = NoSelection)

\* A key was handled with an error already recorded, with a track selected,
\* and the program still runs.
C17_Witness ==
    /\ pkg = "app" /\ ~exited /\ err # "nil"
    /\ \E n \in 1..Len(keys) : keys[n].err # "nil"
    /\ selected # NoSelection /\ cursor > 0

\* C18: a Stop is issued only with a track selected, never from Idle, and at
\* every point at most as many Stops as Starts have been issued.
C18_StopOnlyWhenSelected ==
    /\ \A n \in KeysWith("stopTrack") : SelectedBefore(n) # NoSelection
    /\ \A n \in 1..Len(keys) :
         Cardinality({m \in KeysWith("stopTrack") : m <= n})
            <= Cardinality({m \in KeysWith("playTrack") : m <= n})
    /\ Cardinality(Stops) <= Cardinality(Sessions)

\* A Start, the Stop of its track and a further Start have been issued.
C18_Witness ==
    /\ Cardinality(KeysWith("stopTrack")) = 1
    /\ Cardinality(KeysWith("playTrack")) = 2
    /\ Cardinality(Stops) = 1 /\ Cardinality(Sessions) = 2

\* C19: a session opens the track that was selected when its Start was
\* issued, whatever the cursor and the selection have become since.
C19_PlaysTrackSelectedAtStart ==
    \A s \in Sessions :
        procs[s].pc \notin {"open", "panic"} =>
            /\ keys[KeyOf(s)].selected + 1 \in DOMAIN choices
            /\ procs[s].opened = choices[keys[KeyOf(s)].selected + 1]

\* A session has opened its track while the cursor and the selection are
\* elsewhere.
C19_Witness ==
    \E s \in Sessions :
        /\ procs[s].pc = "decode"
        /\ selected # procs[s].sel /\ selected # NoSelection
        /\ cursor # procs[s].sel

====
